---------------------------- MODULE Spec2Model ----------------------------
(***************************************************************************)
(* A model of the YUREX BBU sensor driver (src/yurex.c): one Device, its   *)
(* perpetual interrupt receive loop (yurex_callback), the hot-plug hooks   *)
(* (device_added, device_removed) and the Sessions opened on its two       *)
(* endpoints (device_open, device_read, device_write); and the Registry    *)
(* (gLock, gDeviceList, gDeviceCount) with a second device and             *)
(* publish_devices.                                                        *)
(*                                                                         *)
(* Representation.  A uint64 is a tuple of 8 bytes, most significant       *)
(* first, so that shifts, carries and truncation to 64 bits are those of   *)
(* the machine type.  Text is a sequence of character codes.               *)
(***************************************************************************)
EXTENDS Integers, Sequences, FiniteSets, TLC

\* ------------------------------------------------------------------------
\* yurex command definition
\* ------------------------------------------------------------------------
CMD_EOF == 13
CMD_ACK == 33
CMD_MODE == 65
CMD_VALUE == 67
CMD_READ == 82
CMD_WRITE == 83
CMD_PADDING == 255

YUREX_DEVICE_TYPE_BBU == 0
YUREX_DEVICE_TYPE_ANIME == 1

\* status_t values the model distinguishes
B_OK == 0
B_ERROR == -1

\* character codes of the literals the source uses
CH_NUL == 0
CH_NL == 10
CH_MINUS == 45
CH_0 == 48
CH_9 == 57

\* sizes of the fixed buffers
PACKET_LEN == 8
READ_BUF_LEN == 16

\* ------------------------------------------------------------------------
\* Machine integers as byte tuples (big-endian)
\* ------------------------------------------------------------------------
\* n zero bytes
Zeros(n) == [i \in 1..n |-> 0]

\* the uint64 0
Zero64 == Zeros(8)

\* x * m + a, truncated to the width of x (m, a small non-negative numbers)
RECURSIVE MulAddFrom(_, _, _, _)
MulAddFrom(x, m, carry, i) ==
    IF i = 0 THEN x
    ELSE LET t == x[i] * m + carry
         IN  MulAddFrom([x EXCEPT ![i] = t % 256], m, t \div 256, i - 1)

MulAdd(x, m, a) == MulAddFrom(x, m, a, Len(x))

\* x <<= 8 on a uint64
Shl8(x) == SubSeq(x, 2, Len(x)) \o <<0>>

\* x += b on a uint64
AddByte(x, b) == MulAdd(x, 1, b)

\* (x >> (8*k)) & 0xff on a uint64
ByteAt(x, k) == x[Len(x) - k]

\* x \div 10 and x % 10 of an unsigned byte tuple: <<quotient, remainder>>
RECURSIVE DivMod10From(_, _, _)
DivMod10From(x, rem, i) ==
    IF i > Len(x) THEN <<x, rem>>
    ELSE LET t == rem * 256 + x[i]
         IN  DivMod10From([x EXCEPT ![i] = t \div 10], t % 10, i + 1)

DivMod10(x) == DivMod10From(x, 0, 1)

IsZero(x) == \A i \in 1..Len(x) : x[i] = 0

\* the decimal digits (character codes) of an unsigned byte tuple
RECURSIVE UDigits(_)
UDigits(x) ==
    LET qr == DivMod10(x)
    IN  IF IsZero(qr[1]) THEN <<CH_0 + qr[2]>>
        ELSE UDigits(qr[1]) \o <<CH_0 + qr[2]>>

\* two's complement negation of a byte tuple
Negate(x) == MulAdd([i \in 1..Len(x) |-> 255 - x[i]], 1, 1)

\* the text printf's %ld / %d gives for a long of Len(x) bytes
SDigits(x) ==
    IF x[1] >= 128 THEN <<CH_MINUS>> \o UDigits(Negate(x)) ELSE UDigits(x)

\* an int (0 or 1 here) as a 4-byte tuple
Int32(n) == <<0, 0, 0, n>>

\* ------------------------------------------------------------------------
\* Command codec
\* ------------------------------------------------------------------------

\* memset(req, CMD_PADDING, sizeof(req)) followed by the stores of `head`
Padded(head) == head \o [i \in 1..(PACKET_LEN - Len(head)) |-> CMD_PADDING]

\* the request yurex_set_mode builds
ModeRequest(val) == Padded(<<CMD_MODE, val, CMD_EOF>>)

\* the request yurex_read_bbu builds
ReadRequest == Padded(<<CMD_READ, CMD_EOF>>)

\* a yurex_write_bbu that stores the value bytes least significant first
WriteRequest_little(bbu) ==
    Padded(<<CMD_WRITE, ByteAt(bbu, 0), ByteAt(bbu, 1), ByteAt(bbu, 2),
             ByteAt(bbu, 3), ByteAt(bbu, 4), CMD_EOF>>)

\* the request yurex_write_bbu builds
WriteRequest(bbu) ==
    Padded(<<CMD_WRITE, ByteAt(bbu, 4), ByteAt(bbu, 3), ByteAt(bbu, 2),
             ByteAt(bbu, 1), ByteAt(bbu, 0), CMD_EOF>>)

\* an accumulation that forgets the shift
Accumulate_noshift(bbu, b) == AddByte(bbu, b)

\* one pass of the accumulation loop of yurex_callback
Accumulate(bbu, b) == AddByte(Shl8(bbu), b)

\* the whole loop: the value bytes 1..5 of an inbound packet carry
RECURSIVE DecodeFrom(_, _, _)
DecodeFrom(req, bbu, i) ==
    IF i > 5 THEN bbu ELSE DecodeFrom(req, Accumulate(bbu, req[i + 1]), i + 1)

Decode(req) == DecodeFrom(req, Zero64, 1)

\* a handler that answers the ACK of any command
IsWriteAck_any(req) == req[1] = CMD_ACK

\* the branch yurex_callback takes on a packet
IsValue(req) == req[1] = CMD_VALUE \/ req[1] = CMD_READ
IsWriteAck(req) == req[1] = CMD_ACK /\ req[2] = CMD_WRITE

\* ------------------------------------------------------------------------
\* Text
\* ------------------------------------------------------------------------

\* snprintf(buf, n, ...) of `text` over the old content `buf`: at most n - 1
\* characters and a terminating NUL are stored, the rest of buf is kept
Snprintf(buf, n, text) ==
    LET k == IF Len(text) < n THEN Len(text) ELSE n - 1
    IN  [i \in 1..Len(buf) |->
            IF i <= k THEN text[i] ELSE IF i = k + 1 THEN CH_NUL ELSE buf[i]]

\* what "%ld\n" prints for a uint64 argument when long has `bits` bits: the
\* whole argument when long is 64 bits wide, its low half when it is 32
FormatLd(bits, bbu) ==
    (IF bits = 64 THEN SDigits(bbu) ELSE SDigits(SubSeq(bbu, 5, 8))) \o <<CH_NL>>

\* what "%d\n" prints for an int
FormatD(n) == SDigits(n) \o <<CH_NL>>

IsDigit(c) == CH_0 <= c /\ c <= CH_9

\* the parse loop of device_write over the memory at `buffer`
RECURSIVE ParseFrom(_, _, _)
ParseFrom(memory, bbu, i) ==
    IF i <= Len(memory) /\ IsDigit(memory[i])
    THEN ParseFrom(memory, MulAdd(bbu, 10, memory[i] - CH_0), i + 1)
    ELSE bbu

ParseBbu(memory) == ParseFrom(memory, Zero64, 1)

\* ------------------------------------------------------------------------
\* State
\* ------------------------------------------------------------------------
VARIABLES
    pnp,            \* where the hot-plug thread is in device_added / device_removed
    mem,            \* the Device record: "none", "live" (malloc'ed) or "freed"
    dev,            \* the fields of the Device record
    sem,            \* the count of dev->sem (1: free, 0: held)
    gLock,          \* the holder of the Registry lock gLock, or "free"
    pnpPeer,        \* where the hot-plug thread is for a second device
    gDeviceList,    \* the Registry list, head first (udev of each Device)
    gDeviceCount,   \* the Registry count
    queued,         \* receives queued on the interrupt pipe, not yet completed
    cb,             \* the running completion handler: its position and locals
    sess,           \* the Session records (dev_open), one per client handle
    longBits,       \* width of long of the build (what %ld reads)
    whole,          \* history: the values the counter was meant to hold
    lastAnime,      \* history: first byte of the last Animation write, -1: none
    uaf,            \* history: the functions that touched the freed Device
    event           \* history: what the last step did

vars == <<pnp, mem, dev, sem, gLock, pnpPeer, gDeviceList, gDeviceCount, queued,
          cb, sess, longBits, whole, lastAnime, uaf, event>>

\* the connection handle of the one physical device
UDEV == 1

\* the pipe handle the transport gives for the interrupt endpoint
EP_HANDLE == 1

\* client handles, and the ones of a single client
Sessions == {1, 2}
Clients == {1}

\* the connection handle of a second device
UDEV_PEER == 2

\* the NULL that ends the array publish_devices returns
NullEntry == <<0, "NULL">>

\* cap on the receives the transport queue holds
MaxQueued == 2

\* device_read is tried at positions 0..MaxPosition with *length 0..MaxLength
MaxPosition == 3
MaxLength == 3

\* the two published names of a Device, and a path nobody publishes
NameBbu(udev) == <<udev, "bbu">>
NameAnime(udev) == <<udev, "animation">>
NoName == <<0, "none">>

\* what the freed Device record may read as, beside its last content
GarbageInts == {0, 1}
Garbage64 == [i \in 1..8 |-> CMD_PADDING]
GarbageBytes == {CH_NUL, CMD_PADDING}

\* inbound packets: the VALUE notification of 300, a READ result of
\* 0x0180000000 with a bad EOF byte, the ACK of a WRITE, the ACK of a MODE
Packets ==
    { <<CMD_VALUE, 0, 0, 0, 1, 44, CMD_EOF, CMD_PADDING>>,
      <<CMD_READ, 1, 128, 0, 0, 0, CMD_PADDING, CMD_PADDING>>,
      <<CMD_ACK, CMD_WRITE, CMD_EOF, CMD_PADDING, CMD_PADDING, CMD_PADDING,
        CMD_PADDING, CMD_PADDING>>,
      <<CMD_ACK, CMD_MODE, CMD_EOF, CMD_PADDING, CMD_PADDING, CMD_PADDING,
        CMD_PADDING, CMD_PADDING>> }

\* the value bytes 1..5 of the inbound packets of the receive loop
ValueBodies ==
    { <<1, 2, 3, 4, 5>>, <<128, 0, 0, 0, 255>>, <<0, 0, 0, 0, 0>> }

\* inbound packets of the receive loop: VALUE and READ packets of every
\* body with a good and a bad EOF byte, and packets of other opcodes
LoopPackets ==
    { <<op>> \o body \o <<eof, CMD_PADDING>> :
          op \in {CMD_VALUE, CMD_READ}, body \in ValueBodies,
          eof \in {CMD_EOF, CMD_PADDING} }
    \cup
    { Padded(head) :
          head \in { <<CMD_ACK, CMD_WRITE, CMD_EOF>>, <<CMD_ACK, CMD_MODE, CMD_EOF>>,
                     <<CMD_ACK, CMD_READ, CMD_EOF>>, <<CMD_WRITE, CMD_WRITE, CMD_EOF>>,
                     <<CMD_MODE, 0, CMD_EOF>>, <<>> } }

\* text of a decimal number, for the inputs of device_write
Text300 == <<51, 48, 48>>
TextBig == <<54, 52, 52, 50, 52, 53, 48, 57, 52, 52>>

\* inputs of device_write: <<the memory at buffer, *length>>; the memory
\* runs to its first byte that is surely no digit
WriteInputs ==
    { <<Text300 \o <<CH_NL>>, 4>>,
      <<Text300 \o <<CH_NL>>, 0>>,
      <<TextBig \o <<CH_NUL>>, 10>>,
      <<<<CH_0, CH_NL>>, 2>>,
      <<<<CH_0 + 1, CH_NL>>, 2>> }

\* decimal texts written to the Counter endpoint: 0, 300, 0x0102030405,
\* 0x0180000000, 2^40 - 1 and 2^40
EncodeTexts ==
    { <<CH_0>>, Text300, TextBig,
      <<52, 51, 50, 56, 55, 49, 57, 51, 54, 53>>,
      <<49, 48, 57, 57, 53, 49, 49, 54, 50, 55, 55, 55, 53>>,
      <<49, 48, 57, 57, 53, 49, 49, 54, 50, 55, 55, 55, 54>> }

\* inputs of the parse of device_write: the memory at buffer is up to
\* MaxWriteLen of these characters, then a NUL
MaxWriteLen == 3
WriteChars == {CH_0, CH_0 + 1, CH_9, CH_NL}
Memories ==
    UNION {[1..n -> WriteChars] : n \in 1..MaxWriteLen}

\* the label of a step
EvIO(fn, sid, call, data, ret, snap, arg) ==
    [fn |-> fn, sid |-> sid, call |-> call, data |-> data, ret |-> ret,
     snap |-> snap, arg |-> arg, live |-> (mem = "live")]

Ev(fn, sid, call, data, ret, snap) == EvIO(fn, sid, call, data, ret, snap, <<>>)

NoSession ==
    [st |-> "none", bound |-> FALSE, type |-> YUREX_DEVICE_TYPE_BBU,
     buf |-> Zeros(READ_BUF_LEN), buf_len |-> 0, wbyte |-> 0]

NoDevice ==
    [udev |-> 0, ifno |-> 0, ep_detect |-> 0, ep_address |-> 0, ep |-> 0,
     bbu |-> Zero64, anime |-> 0, buf |-> Zeros(PACKET_LEN)]

\* (sent is history: the commands this invocation of the handler has sent)
IdleCallback ==
    [pc |-> "idle", status |-> B_OK, i |-> 0, locked |-> FALSE, sent |-> 0]

Init ==
    /\ pnp = "absent"
    /\ mem = "none"
    /\ dev = NoDevice
    /\ sem = 1
    /\ gLock = "free"
    /\ pnpPeer = "absent"
    /\ gDeviceList = <<>>
    /\ gDeviceCount = 0
    /\ queued = 0
    /\ cb = IdleCallback
    /\ sess = [s \in Sessions |-> NoSession]
    /\ longBits \in {32, 64}
    /\ whole = {Zero64}
    /\ lastAnime = -1
    /\ uaf = {}
    /\ event = Ev("init_driver", 0, "none", <<>>, B_OK, <<>>)

\* ------------------------------------------------------------------------
\* Memory, semaphore and transport
\* ------------------------------------------------------------------------

\* what a read of a field of the Device record gives: its content while the
\* record is allocated, that or anything else once it was freed
FetchInt(v) == IF mem = "freed" THEN {v} \cup GarbageInts ELSE {v}
Fetch64(v) == IF mem = "freed" THEN {v, Garbage64} ELSE {v}

\* the record of who used the Device record after free(cookie)
Touch(fn) == IF mem = "freed" THEN uaf \cup {fn} ELSE uaf

\* a handler that does not wait for the semaphore
SemAvailable_unlocked == TRUE

\* acquire_sem(dev->sem) returns at once when the count is positive
SemAvailable == sem > 0

\* a yurex_interrupt that queues the receive twice
QueueInterrupt_twice(q, ep) ==
    IF ep = EP_HANDLE /\ q + 1 < MaxQueued THEN q + 2 ELSE q

\* a yurex_interrupt that queues nothing
QueueInterrupt_never(q, ep) == q

\* gUsb->queue_interrupt(ep, ...): a receive is queued on a valid pipe
QueueInterrupt(q, ep) ==
    IF ep = EP_HANDLE /\ q < MaxQueued THEN q + 1 ELSE q

\* an acquire_sem(gLock) that does not wait
LockFree_ignored == TRUE

\* acquire_sem(gLock) returns when nobody holds the lock
LockFree == gLock = "free"

\* a release_sem(gLock) that was left out
Release_kept(holder) == holder

\* release_sem(gLock)
Release(holder) == "free"

\* dev->next = gDeviceList; gDeviceList = dev (lines 409-410)
Link(list, d) == <<d>> \o list

\* a removal that leaves the list as it is
Unlink_none(list, d) == list

\* removal of dev from the singly linked list (lines 472-481)
Unlink(list, d) ==
    IF list # <<>> /\ Head(list) = d THEN Tail(list)
    ELSE LET at == {i \in 1..Len(list) : list[i] = d}
         IN  IF at = {} THEN list
             ELSE LET k == CHOOSE i \in at : \A j \in at : i <= j
                  IN  SubSeq(list, 1, k - 1) \o SubSeq(list, k + 1, Len(list))

\* ------------------------------------------------------------------------
\* device_added
\* ------------------------------------------------------------------------

\* malloc fails: return B_ERROR (lines 393-396)
device_added_nomem ==
    /\ pnp = "absent"
    /\ pnp' = "nomem"
    /\ event' = Ev("device_added", 0, "none", <<>>, B_ERROR, <<>>)
    /\ UNCHANGED <<mem, dev, sem, gLock, pnpPeer, gDeviceList,
                   gDeviceCount, queued, cb,
                   sess, longBits, lastAnime, whole, uaf>>

\* the instance is initialised, gLock is acquired and the instance is linked
\* (lines 393-410)
device_added_register ==
    /\ pnp = "absent"
    /\ LockFree
    /\ pnp' = "added_count"
    /\ mem' = "live"
    /\ dev' = [NoDevice EXCEPT !.udev = UDEV, !.anime = 1]
    /\ sem' = 1
    /\ gLock' = "hotplug"
    /\ gDeviceList' = Link(gDeviceList, UDEV)
    /\ lastAnime' = -1
    /\ event' = Ev("device_added", 0, "none", <<>>, B_OK, <<>>)
    /\ UNCHANGED <<pnpPeer, gDeviceCount, queued, cb, sess, longBits, whole, uaf>>

\* gDeviceCount++; release_sem(gLock) (lines 411-413)
device_added_count ==
    /\ pnp = "added_count"
    /\ pnp' = "added_conf"
    /\ gDeviceCount' = gDeviceCount + 1
    /\ gLock' = Release(gLock)
    /\ event' = Ev("device_added", 0, "none", <<>>, B_OK, <<>>)
    /\ UNCHANGED <<mem, dev, sem, pnpPeer, gDeviceList, queued, cb, sess,
                   longBits, lastAnime, whole, uaf>>

\* get_nth_configuration gives NULL: return B_ERROR (lines 416-418)
device_added_noconf ==
    /\ pnp = "added_conf"
    /\ pnp' = "orphan"
    /\ event' = Ev("device_added", 0, "none", <<>>, B_ERROR, <<>>)
    /\ UNCHANGED <<mem, dev, sem, gLock, pnpPeer, gDeviceList,
                   gDeviceCount, queued, cb,
                   sess, longBits, lastAnime, whole, uaf>>

\* the endpoint scan and set_configuration (lines 421-451); `found` says
\* whether an interrupt-IN endpoint of packet size 8 exists
device_added_scan(found) ==
    /\ pnp = "added_conf"
    /\ pnp' = "added_mode"
    /\ dev' = IF found
              THEN [dev EXCEPT !.ep = EP_HANDLE, !.ep_address = 129,
                               !.ep_detect = 1, !.ifno = 0]
              ELSE dev
    /\ event' = Ev("device_added", 0, IF found THEN "none" ELSE "dprintf",
                   <<>>, B_OK, <<>>)
    /\ UNCHANGED <<mem, sem, gLock, pnpPeer, gDeviceList,
                   gDeviceCount, queued, cb, sess,
                   longBits, lastAnime, whole, uaf>>

\* yurex_set_mode(dev, 0) (line 454)
device_added_set_mode ==
    /\ pnp = "added_mode"
    /\ pnp' = "added_read"
    /\ event' = Ev("device_added", 0, "send_request", ModeRequest(0), B_OK, <<>>)
    /\ UNCHANGED <<mem, dev, sem, gLock, pnpPeer, gDeviceList,
                   gDeviceCount, queued, cb,
                   sess, longBits, lastAnime, whole, uaf>>

\* yurex_read_bbu(dev) (line 455)
device_added_read_bbu ==
    /\ pnp = "added_read"
    /\ pnp' = "added_intr"
    /\ event' = Ev("device_added", 0, "send_request", ReadRequest, B_OK, <<>>)
    /\ UNCHANGED <<mem, dev, sem, gLock, pnpPeer, gDeviceList,
                   gDeviceCount, queued, cb,
                   sess, longBits, lastAnime, whole, uaf>>

\* yurex_interrupt(dev); return B_OK (lines 456-458)
device_added_interrupt ==
    /\ pnp = "added_intr"
    /\ pnp' = "attached"
    /\ queued' = QueueInterrupt(queued, dev.ep)
    /\ event' = Ev("device_added", 0, "queue_interrupt", <<>>, B_OK, <<>>)
    /\ UNCHANGED <<mem, dev, sem, gLock, pnpPeer, gDeviceList,
                   gDeviceCount, cb, sess,
                   longBits, lastAnime, whole, uaf>>

\* ------------------------------------------------------------------------
\* device_removed
\* ------------------------------------------------------------------------

\* gLock is acquired and the instance is unlinked (lines 469-481)
device_removed_unlink ==
    /\ pnp = "attached"
    /\ LockFree
    /\ pnp' = "removed_count"
    /\ gLock' = "hotplug"
    /\ gDeviceList' = Unlink(gDeviceList, dev.udev)
    /\ event' = Ev("device_removed", 0, "none", <<>>, B_OK, <<>>)
    /\ UNCHANGED <<mem, dev, sem, pnpPeer, gDeviceCount, queued, cb, sess,
                   longBits, lastAnime, whole, uaf>>

\* gDeviceCount--; release_sem(gLock) (lines 482-484)
device_removed_count ==
    /\ pnp = "removed_count"
    /\ pnp' = "removed_flag"
    /\ gDeviceCount' = gDeviceCount - 1
    /\ gLock' = Release(gLock)
    /\ event' = Ev("device_removed", 0, "none", <<>>, B_OK, <<>>)
    /\ UNCHANGED <<mem, dev, sem, pnpPeer, gDeviceList, queued, cb, sess,
                   longBits, lastAnime, whole, uaf>>

\* dev->ep_detect = 0 (line 487)
device_removed_flag ==
    /\ pnp = "removed_flag"
    /\ pnp' = "removed_cancel"
    /\ dev' = [dev EXCEPT !.ep_detect = 0]
    /\ event' = Ev("device_removed", 0, "none", <<>>, B_OK, <<>>)
    /\ UNCHANGED <<mem, sem, gLock, pnpPeer, gDeviceList,
                   gDeviceCount, queued, cb, sess,
                   longBits, lastAnime, whole, uaf>>

\* gUsb->cancel_queued_transfers(dev->ep) (line 488): the queued receive
\* will complete with a non-success status
device_removed_cancel ==
    /\ pnp = "removed_cancel"
    /\ pnp' = "removed_free"
    /\ event' = Ev("device_removed", 0, "cancel_queued_transfers", <<>>, B_OK, <<>>)
    /\ UNCHANGED <<mem, dev, sem, gLock, pnpPeer, gDeviceList,
                   gDeviceCount, queued, cb,
                   sess, longBits, lastAnime, whole, uaf>>

\* free(cookie); return B_OK (lines 491-493)
device_removed_free ==
    /\ pnp = "removed_free"
    /\ pnp' = "gone"
    /\ mem' = "freed"
    /\ event' = Ev("device_removed", 0, "none", <<>>, B_OK, <<>>)
    /\ UNCHANGED <<dev, sem, gLock, pnpPeer, gDeviceList,
                   gDeviceCount, queued, cb, sess,
                   longBits, lastAnime, whole, uaf>>

\* ------------------------------------------------------------------------
\* A second device, and publish_devices
\* ------------------------------------------------------------------------
\* Of device_added and device_removed for the second device the model has
\* what they do to the Registry; its own record and receive loop are apart
\* from those of the first device.

\* device_added: gLock is acquired and the instance is linked (lines 406-410)
device_added_register_peer ==
    /\ pnpPeer = "absent"
    /\ LockFree
    /\ pnpPeer' = "added_count"
    /\ gLock' = "peer"
    /\ gDeviceList' = Link(gDeviceList, UDEV_PEER)
    /\ event' = Ev("device_added", 0, "none", <<>>, B_OK, <<>>)
    /\ UNCHANGED <<pnp, mem, dev, sem, gDeviceCount, queued, cb, sess,
                   longBits, lastAnime, whole, uaf>>

\* device_added: gDeviceCount++; release_sem(gLock) (lines 411-413)
device_added_count_peer ==
    /\ pnpPeer = "added_count"
    /\ pnpPeer' = "attached"
    /\ gDeviceCount' = gDeviceCount + 1
    /\ gLock' = Release(gLock)
    /\ event' = Ev("device_added", 0, "none", <<>>, B_OK, <<>>)
    /\ UNCHANGED <<pnp, mem, dev, sem, gDeviceList, queued, cb, sess,
                   longBits, lastAnime, whole, uaf>>

\* device_removed: gLock is acquired and the instance is unlinked
\* (lines 469-481)
device_removed_unlink_peer ==
    /\ pnpPeer = "attached"
    /\ LockFree
    /\ pnpPeer' = "removed_count"
    /\ gLock' = "peer"
    /\ gDeviceList' = Unlink(gDeviceList, UDEV_PEER)
    /\ event' = Ev("device_removed", 0, "none", <<>>, B_OK, <<>>)
    /\ UNCHANGED <<pnp, mem, dev, sem, gDeviceCount, queued, cb, sess,
                   longBits, lastAnime, whole, uaf>>

\* device_removed: gDeviceCount--; release_sem(gLock) (lines 482-484)
device_removed_count_peer ==
    /\ pnpPeer = "removed_count"
    /\ pnpPeer' = "gone"
    /\ gDeviceCount' = gDeviceCount - 1
    /\ gLock' = Release(gLock)
    /\ event' = Ev("device_removed", 0, "none", <<>>, B_OK, <<>>)
    /\ UNCHANGED <<pnp, mem, dev, sem, gDeviceList, queued, cb, sess,
                   longBits, lastAnime, whole, uaf>>

\* the array publish_devices fills (lines 335-345): for each of `count`
\* devices the two names of the next element of the list, then NULL; past
\* the end of the list `device` is NULL and the names are anything
DeviceNames(list, count) ==
    [k \in 1..(2 * count + 1) |->
        IF k = 2 * count + 1 THEN NullEntry
        ELSE LET i == (k + 1) \div 2
                 d == IF i <= Len(list) THEN list[i] ELSE 0
             IN  IF k % 2 = 1 THEN NameBbu(d) ELSE NameAnime(d)]

\* publish_devices (lines 315-355): under gLock the old array is freed and
\* the new one is built from gDeviceCount and gDeviceList
publish_devices ==
    /\ LockFree
    /\ gDeviceCount >= 0
    /\ event' = Ev("publish_devices", 0, "none",
                   DeviceNames(gDeviceList, gDeviceCount), B_OK, <<>>)
    /\ UNCHANGED <<pnp, mem, dev, sem, gLock, pnpPeer, gDeviceList,
                   gDeviceCount, queued, cb, sess, longBits, lastAnime, whole, uaf>>

\* publish_devices when malloc fails: return NULL (lines 335, 346-352)
publish_devices_nomem ==
    /\ LockFree
    /\ event' = Ev("publish_devices", 0, "none", <<>>, B_ERROR, <<>>)
    /\ UNCHANGED <<pnp, mem, dev, sem, gLock, pnpPeer, gDeviceList,
                   gDeviceCount, queued, cb, sess, longBits, lastAnime, whole, uaf>>

\* ------------------------------------------------------------------------
\* The transport completes the queued receive and calls yurex_callback
\* ------------------------------------------------------------------------

\* the statuses a completion is delivered with
Statuses == {B_OK, B_ERROR}

\* yurex_callback(dev, status, dev->buf, n) is entered (lines 135-142).
\* A successful receive stores packet p in dev->buf and happens only while
\* the device is attached; a failed or cancelled one leaves in dev->buf
\* what it held or what arrived of p.
complete(p, status) ==
    /\ queued > 0
    /\ cb.pc = "idle"
    /\ mem # "none"
    /\ status = B_OK => pnp = "attached" /\ p \in Packets
    /\ queued' = queued - 1
    /\ dev' = [dev EXCEPT !.buf = p]
    /\ cb' = [IdleCallback EXCEPT !.pc = "dispatch", !.status = status]
    /\ whole' = IF IsValue(p) THEN whole \cup {Decode(p)} ELSE whole
    /\ event' = Ev("usb", 0, "none", p, status, <<>>)
    /\ UNCHANGED <<pnp, mem, sem, gLock, pnpPeer, gDeviceList,
                   gDeviceCount, sess, longBits, lastAnime, uaf>>

\* the test of req[0], req[1] (lines 144-145, 157)
yurex_callback_dispatch ==
    /\ cb.pc = "dispatch"
    /\ cb' = [cb EXCEPT !.pc = IF IsValue(dev.buf) THEN "acquire"
                                ELSE IF IsWriteAck(dev.buf) THEN "read_bbu"
                                ELSE "check"]
    /\ uaf' = Touch("yurex_callback")
    /\ event' = Ev("yurex_callback", 0, "none", <<>>, cb.status, <<>>)
    /\ UNCHANGED <<pnp, mem, dev, sem, gLock, pnpPeer, gDeviceList,
                   gDeviceCount, queued,
                   sess, longBits, lastAnime, whole>>

\* acquire_sem(dev->sem); dev->bbu = 0 (lines 147-148).  On a freed record
\* the semaphore id may be garbage, and acquire_sem then fails at once.
yurex_callback_acquire ==
    /\ cb.pc = "acquire"
    /\ \/ /\ SemAvailable
          /\ sem' = sem - 1
          /\ cb' = [cb EXCEPT !.pc = "accumulate", !.i = 1, !.locked = TRUE]
       \/ /\ mem = "freed"
          /\ sem' = sem
          /\ cb' = [cb EXCEPT !.pc = "accumulate", !.i = 1]
    /\ dev' = [dev EXCEPT !.bbu = Zero64]
    /\ uaf' = Touch("yurex_callback")
    /\ event' = Ev("yurex_callback", 0, "none", <<>>, cb.status, <<>>)
    /\ UNCHANGED <<pnp, mem, gLock, pnpPeer, gDeviceList,
                   gDeviceCount, queued, sess,
                   longBits, lastAnime, whole>>

\* one pass of the loop: dev->bbu <<= 8; dev->bbu += req[i] (lines 149-152)
yurex_callback_accumulate ==
    /\ cb.pc = "accumulate"
    /\ dev' = [dev EXCEPT !.bbu = Accumulate(dev.bbu, dev.buf[cb.i + 1])]
    /\ cb' = IF cb.i < 5 THEN [cb EXCEPT !.i = cb.i + 1]
             ELSE [cb EXCEPT !.pc = "release"]
    /\ uaf' = Touch("yurex_callback")
    /\ event' = Ev("yurex_callback", 0, "none", <<>>, cb.status, <<>>)
    /\ UNCHANGED <<pnp, mem, sem, gLock, pnpPeer, gDeviceList,
                   gDeviceCount, queued, sess,
                   longBits, lastAnime, whole>>

\* release_sem(dev->sem) and the test of req[6] (lines 153-156)
yurex_callback_release ==
    /\ cb.pc = "release"
    /\ sem' = IF cb.locked THEN sem + 1 ELSE sem
    /\ cb' = [cb EXCEPT !.pc = "check", !.locked = FALSE]
    /\ uaf' = Touch("yurex_callback")
    /\ event' = Ev("yurex_callback", 0,
                   IF dev.buf[7] # CMD_EOF THEN "dprintf" ELSE "none",
                   <<>>, cb.status, dev.bbu)
    /\ UNCHANGED <<pnp, mem, dev, gLock, pnpPeer, gDeviceList,
                   gDeviceCount, queued, sess,
                   longBits, lastAnime, whole>>

\* yurex_read_bbu(dev) after the ACK of a WRITE (lines 157-158)
yurex_callback_read_bbu ==
    /\ cb.pc = "read_bbu"
    /\ cb' = [cb EXCEPT !.pc = "check", !.sent = @ + 1]
    /\ uaf' = Touch("yurex_callback")
    /\ event' = Ev("yurex_callback", 0, "send_request", ReadRequest, cb.status, <<>>)
    /\ UNCHANGED <<pnp, mem, dev, sem, gLock, pnpPeer, gDeviceList,
                   gDeviceCount, queued,
                   sess, longBits, lastAnime, whole>>

\* if (0 != dev->ep_detect) (line 161)
yurex_callback_check ==
    /\ cb.pc = "check"
    /\ \E detect \in FetchInt(dev.ep_detect) :
          cb' = IF detect # 0 THEN [cb EXCEPT !.pc = "requeue"] ELSE IdleCallback
    /\ uaf' = Touch("yurex_callback")
    /\ event' = Ev("yurex_callback", 0, "none", <<>>, cb.status, <<>>)
    /\ UNCHANGED <<pnp, mem, dev, sem, gLock, pnpPeer, gDeviceList,
                   gDeviceCount, queued,
                   sess, longBits, lastAnime, whole>>

\* yurex_interrupt(dev) (line 162) and the return
yurex_callback_requeue ==
    /\ cb.pc = "requeue"
    /\ \E ep \in FetchInt(dev.ep) : queued' = QueueInterrupt(queued, ep)
    /\ cb' = IdleCallback
    /\ uaf' = Touch("yurex_callback")
    /\ event' = Ev("yurex_callback", 0, "queue_interrupt", <<>>, cb.status, <<>>)
    /\ UNCHANGED <<pnp, mem, dev, sem, gLock, pnpPeer, gDeviceList,
                   gDeviceCount, sess,
                   longBits, lastAnime, whole>>

\* ------------------------------------------------------------------------
\* Sessions: device_open, device_read, device_write, device_close, device_free
\* ------------------------------------------------------------------------

\* malloc fails: return B_ERROR (lines 501-505)
device_open_nomem(s) ==
    /\ sess[s].st \in {"none", "failed"}
    /\ event' = Ev("device_open", s, "none", <<>>, B_ERROR, <<>>)
    /\ UNCHANGED <<pnp, mem, dev, sem, gLock, pnpPeer, gDeviceList,
                   gDeviceCount, queued, cb,
                   sess, longBits, lastAnime, whole, uaf>>

\* the positions of the list whose Device publishes `name` (lines 511-526)
Matching(list, name) ==
    {i \in 1..Len(list) : name = NameBbu(list[i]) \/ name = NameAnime(list[i])}

\* the record is allocated, zeroed and stored in *cookie, then bound to the
\* first Device of the list that publishes `name` (lines 501-534)
device_open(s, name) ==
    /\ sess[s].st \in {"none", "failed"}
    /\ LockFree
    /\ LET at == Matching(gDeviceList, name)
           first == CHOOSE i \in at : \A j \in at : i <= j
       IN  IF at = {}
           THEN /\ sess' = [sess EXCEPT ![s] = [NoSession EXCEPT !.st = "failed"]]
                /\ event' = EvIO("device_open", s, "none", <<>>, B_ERROR, <<>>, name)
           ELSE /\ sess' = [sess EXCEPT ![s] =
                      [NoSession EXCEPT
                          !.st = "open", !.bound = TRUE,
                          !.type = IF name = NameBbu(gDeviceList[first])
                                   THEN YUREX_DEVICE_TYPE_BBU
                                   ELSE YUREX_DEVICE_TYPE_ANIME]]
                /\ event' = EvIO("device_open", s, "none", <<>>, B_OK, <<>>, name)
    /\ UNCHANGED <<pnp, mem, dev, sem, gLock, pnpPeer, gDeviceList,
                   gDeviceCount, queued, cb,
                   longBits, lastAnime, whole, uaf>>

\* len = dev->buf_len - position; if (len > *length) len = *length
\* (lines 573-575).  len is a size_t: a negative difference is a value
\* above every *length.
CopyLen(buf_len, position, length) ==
    LET diff == buf_len - position
    IN  IF diff < 0 \/ diff > length THEN length ELSE diff

\* memcpy(buffer, &dev->buf[position], len) (line 576): bytes past the 16
\* of dev->buf are whatever lies behind them (g)
CopyOut(buf, position, len, g) ==
    [k \in 1..len |-> IF position + k <= READ_BUF_LEN THEN buf[position + k] ELSE g]

\* device_read (lines 557-580)
device_read(s, position, length) ==
    /\ sess[s].st = "open"
    /\ position = 0 => SemAvailable \/ mem = "freed"
    /\ \E v64 \in Fetch64(dev.bbu), vi \in FetchInt(dev.anime), g \in GarbageBytes :
          LET text == IF sess[s].type = YUREX_DEVICE_TYPE_BBU
                      THEN FormatLd(longBits, v64)
                      ELSE FormatD(Int32(vi))
              staged == IF position = 0
                        THEN [sess[s] EXCEPT
                                 !.buf = Snprintf(@, READ_BUF_LEN, text),
                                 !.buf_len = Len(text)]
                        ELSE sess[s]
              len == CopyLen(staged.buf_len, position, length)
          IN  /\ sess' = [sess EXCEPT ![s] = staged]
              /\ event' = EvIO("device_read", s, "none",
                               CopyOut(staged.buf, position, len, g), B_OK,
                               IF position # 0 THEN <<>>
                               ELSE IF sess[s].type = YUREX_DEVICE_TYPE_BBU
                                    THEN v64 ELSE Int32(vi),
                               <<position, length>>)
    /\ uaf' = IF position = 0 THEN Touch("device_read") ELSE uaf
    /\ UNCHANGED <<pnp, mem, dev, sem, gLock, pnpPeer, gDeviceList,
                   gDeviceCount, queued, cb,
                   longBits, lastAnime, whole>>

\* device_write with *length == 0 (lines 588-589)
device_write_empty(s, memory) ==
    /\ sess[s].st = "open"
    /\ event' = EvIO("device_write", s, "none", <<>>, B_OK, <<>>, <<memory, 0>>)
    /\ UNCHANGED <<pnp, mem, dev, sem, gLock, pnpPeer, gDeviceList,
                   gDeviceCount, queued, cb,
                   sess, longBits, lastAnime, whole, uaf>>

\* a device_write that never clears the flag
AnimeOf_stuck(c) == 1

\* the branch of device_write on the first byte written: the value stored
\* in dev->anime (lines 592-602) and the one given to yurex_set_mode
\* (lines 597, 603)
AnimeOf(c) == IF c = CH_0 THEN 0 ELSE 1
ModeOf(c) == IF c = CH_0 THEN CMD_PADDING ELSE 0

\* device_write on the Animation endpoint: acquire_sem(dev->dev->sem) and
\* the store to dev->anime (lines 592-595, 599-601).  On a freed record the
\* semaphore id may be garbage, and acquire_sem then fails at once.
device_write_anime(s, memory, length) ==
    /\ sess[s].st = "open"
    /\ length > 0
    /\ sess[s].type = YUREX_DEVICE_TYPE_ANIME
    /\ \/ /\ SemAvailable
          /\ sem' = sem - 1
          /\ sess' = [sess EXCEPT ![s].st = "write_locked", ![s].wbyte = memory[1]]
       \/ /\ mem = "freed"
          /\ sem' = sem
          /\ sess' = [sess EXCEPT ![s].st = "write_mode", ![s].wbyte = memory[1]]
    /\ dev' = [dev EXCEPT !.anime = AnimeOf(memory[1])]
    /\ lastAnime' = memory[1]
    /\ uaf' = Touch("device_write")
    /\ event' = EvIO("device_write", s, "none", <<>>, B_OK, <<>>, <<memory, length>>)
    /\ UNCHANGED <<pnp, mem, gLock, pnpPeer, gDeviceList, gDeviceCount, queued,
                   cb, longBits, whole>>

\* ... its release_sem(dev->dev->sem) (lines 596, 602)
device_write_release(s) ==
    /\ sess[s].st = "write_locked"
    /\ sem' = sem + 1
    /\ sess' = [sess EXCEPT ![s].st = "write_mode"]
    /\ uaf' = Touch("device_write")
    /\ event' = Ev("device_write", s, "none", <<>>, B_OK, <<>>)
    /\ UNCHANGED <<pnp, mem, dev, gLock, pnpPeer, gDeviceList, gDeviceCount,
                   queued, cb, longBits, lastAnime, whole>>

\* ... and its yurex_set_mode(dev->dev, 0xff or 0x00); return B_OK
\* (lines 597, 603, 615)
device_write_set_mode(s) ==
    /\ sess[s].st = "write_mode"
    /\ sess' = [sess EXCEPT ![s].st = "open"]
    /\ uaf' = Touch("device_write")
    /\ event' = Ev("device_write", s, "send_request",
                   ModeRequest(ModeOf(sess[s].wbyte)), B_OK, <<>>)
    /\ UNCHANGED <<pnp, mem, dev, sem, gLock, pnpPeer, gDeviceList,
                   gDeviceCount, queued, cb,
                   longBits, lastAnime, whole>>

\* device_write on the Counter endpoint: the parse and yurex_write_bbu
\* (lines 605-615)
device_write_bbu(s, memory, length) ==
    /\ sess[s].st = "open"
    /\ length > 0
    /\ sess[s].type = YUREX_DEVICE_TYPE_BBU
    /\ uaf' = Touch("device_write")
    /\ event' = EvIO("device_write", s, "send_request",
                     WriteRequest(ParseBbu(memory)), B_OK, <<>>, <<memory, length>>)
    /\ UNCHANGED <<pnp, mem, dev, sem, gLock, pnpPeer, gDeviceList,
                   gDeviceCount, queued, cb,
                   sess, longBits, lastAnime, whole>>

\* device_close (lines 537-543)
device_close(s) ==
    /\ sess[s].st = "open"
    /\ sess' = [sess EXCEPT ![s].st = "closed"]
    /\ event' = Ev("device_close", s, "none", <<>>, B_ERROR, <<>>)
    /\ UNCHANGED <<pnp, mem, dev, sem, gLock, pnpPeer, gDeviceList,
                   gDeviceCount, queued, cb,
                   longBits, lastAnime, whole, uaf>>

\* device_free (lines 545-555)
device_free(s) ==
    /\ sess[s].st = "closed"
    /\ sess' = [sess EXCEPT ![s] = NoSession]
    /\ event' = Ev("device_free", s, "none", <<>>, B_ERROR, <<>>)
    /\ UNCHANGED <<pnp, mem, dev, sem, gLock, pnpPeer, gDeviceList,
                   gDeviceCount, queued, cb,
                   longBits, lastAnime, whole, uaf>>

\* ------------------------------------------------------------------------
\* Specifications
\* ------------------------------------------------------------------------

\* the hot-plug thread: device_added, then device_removed
HotPlug ==
    \/ device_added_nomem
    \/ device_added_register
    \/ device_added_count
    \/ device_added_noconf
    \/ \E found \in BOOLEAN : device_added_scan(found)
    \/ device_added_set_mode
    \/ device_added_read_bbu
    \/ device_added_interrupt
    \/ device_removed_unlink
    \/ device_removed_count
    \/ device_removed_flag
    \/ device_removed_cancel
    \/ device_removed_free

\* the completion handler, once entered
Callback ==
    \/ yurex_callback_dispatch
    \/ yurex_callback_acquire
    \/ yurex_callback_accumulate
    \/ yurex_callback_release
    \/ yurex_callback_read_bbu
    \/ yurex_callback_check
    \/ yurex_callback_requeue

\* The Device and its receive loop from plug to unplug: the hot-plug thread
\* against the transport's thread, which completes receives with any packet
\* and any status.
Next ==
    \/ HotPlug
    \/ \E p \in Packets \cup {dev.buf}, status \in Statuses : complete(p, status)
    \/ Callback

Spec == Init /\ [][Next]_vars

\* The state device_added leaves when it found the endpoint: the Device is
\* registered and its first receive is queued.
Attached ==
    /\ pnp = "attached"
    /\ mem = "live"
    /\ dev = [NoDevice EXCEPT !.udev = UDEV, !.anime = 1, !.ep = EP_HANDLE,
                              !.ep_address = 129, !.ep_detect = 1]
    /\ sem = 1
    /\ gLock = "free"
    /\ pnpPeer = "absent"
    /\ gDeviceList = <<UDEV>>
    /\ gDeviceCount = 1
    /\ queued = 1
    /\ cb = IdleCallback
    /\ sess = [s \in Sessions |-> NoSession]
    /\ whole = {Zero64}
    /\ lastAnime = -1
    /\ uaf = {}
    /\ event = [Ev("device_added", 0, "queue_interrupt", <<>>, B_OK, <<>>)
                   EXCEPT !.live = TRUE]

\* The attached Device under either build.
InitIO ==
    /\ Attached
    /\ longBits \in {32, 64}

\* A Counter Session against the streaming Device: a client that opens the
\* Counter endpoint, writes and reads it whole, while receives complete.
NextStream ==
    \/ \E p \in Packets \cup {dev.buf}, status \in Statuses : complete(p, status)
    \/ Callback
    \/ \E s \in Clients : device_open(s, NameBbu(UDEV))
    \/ \E s \in Clients : device_read(s, 0, READ_BUF_LEN)
    \/ \E s \in Clients, w \in WriteInputs :
          \/ w[2] = 0 /\ device_write_empty(s, w[1])
          \/ device_write_bbu(s, w[1], w[2])

SpecStream == InitIO /\ [][NextStream]_vars

\* Sessions across plug and unplug of a silent device (no receive completes).
NextClient ==
    \/ HotPlug
    \/ \E s \in Clients : device_open_nomem(s)
    \/ \E s \in Clients, name \in {NameBbu(UDEV), NameAnime(UDEV), NoName} :
          device_open(s, name)
    \/ \E s \in Clients : device_read(s, 0, READ_BUF_LEN)
    \/ \E s \in Clients, w \in WriteInputs :
          \/ w[2] = 0 /\ device_write_empty(s, w[1])
          \/ device_write_anime(s, w[1], w[2])
          \/ device_write_bbu(s, w[1], w[2])
    \/ \E s \in Clients : device_write_release(s)
    \/ \E s \in Clients : device_write_set_mode(s)
    \/ \E s \in Clients : device_close(s)
    \/ \E s \in Clients : device_free(s)

SpecClient == Init /\ [][NextClient]_vars

\* Reads of a Session at every position and length, while receives complete.
NextRead ==
    \/ \E p \in Packets : complete(p, B_OK)
    \/ Callback
    \/ \E s \in Clients, name \in {NameBbu(UDEV), NameAnime(UDEV)} :
          device_open(s, name)
    \/ \E s \in Clients, position \in 0..MaxPosition, length \in 0..MaxLength :
          device_read(s, position, length)

SpecRead == InitIO /\ [][NextRead]_vars

\* Writes of a Counter Session from every memory content and length.
NextWrite ==
    \/ \E s \in Clients : device_open(s, NameBbu(UDEV))
    \/ \E s \in Clients, m \in Memories :
          device_write_empty(s, m \o <<CH_NUL>>)
    \/ \E s \in Clients, m \in Memories, length \in 1..MaxWriteLen :
          length <= Len(m) /\ device_write_bbu(s, m \o <<CH_NUL>>, length)

SpecWrite == InitIO /\ [][NextWrite]_vars

\* The receive loop of a Device that stays connected: receives complete
\* with any packet and any status, and the handler runs.
NextLoop ==
    \/ \E p \in LoopPackets, status \in Statuses :
          pnp = "attached" /\ complete(p, status)
    \/ Callback

SpecLoop == InitIO /\ [][NextLoop]_vars

\* ... where the thread of the transport that runs the handler is scheduled
\* until the handler returns.
SpecLoopFair == SpecLoop /\ WF_vars(Callback)

\* Every sender of a command: device_added, the handler on the packets of
\* the device, and Sessions writing to both endpoints.
NextEncode ==
    \/ device_added_register
    \/ device_added_count
    \/ \E found \in BOOLEAN : device_added_scan(found)
    \/ device_added_set_mode
    \/ device_added_read_bbu
    \/ device_added_interrupt
    \/ \E p \in Packets : complete(p, B_OK)
    \/ Callback
    \/ \E s \in Clients, name \in {NameBbu(UDEV), NameAnime(UDEV)} :
          device_open(s, name)
    \/ \E s \in Clients, t \in EncodeTexts :
          device_write_bbu(s, t \o <<CH_NL>>, Len(t) + 1)
    \/ \E s \in Clients, w \in WriteInputs : device_write_anime(s, w[1], w[2])
    \/ \E s \in Clients : device_write_release(s)
    \/ \E s \in Clients : device_write_set_mode(s)
    \/ \E s \in Clients : device_close(s)
    \/ \E s \in Clients : device_free(s)

SpecEncode == Init /\ [][NextEncode]_vars

\* Every context that calls the transport, together: the hot-plug thread,
\* the receive loop, and a Session that writes to either endpoint.
NextLocks ==
    \/ HotPlug
    \/ \E p \in Packets, status \in Statuses : complete(p, status)
    \/ Callback
    \/ \E s \in Clients, name \in {NameBbu(UDEV), NameAnime(UDEV)} :
          device_open(s, name)
    \/ \E s \in Clients : device_write_anime(s, <<CH_0, CH_NL>>, 2)
    \/ \E s \in Clients : device_write_release(s)
    \/ \E s \in Clients : device_write_set_mode(s)
    \/ \E s \in Clients : device_write_bbu(s, Text300 \o <<CH_NL>>, 4)
    \/ \E s \in Clients : device_close(s)
    \/ \E s \in Clients : device_free(s)

SpecLocks == Init /\ [][NextLocks]_vars

\* Two Sessions on the Animation endpoint of the attached Device, writing
\* at the same time.
NextAnime ==
    \/ \E s \in Sessions : device_open(s, NameAnime(UDEV))
    \/ \E s \in Sessions, w \in WriteInputs : device_write_anime(s, w[1], w[2])
    \/ \E s \in Sessions : device_write_release(s)
    \/ \E s \in Sessions : device_write_set_mode(s)

SpecAnime == InitIO /\ [][NextAnime]_vars

\* The Registry: the hot-plug hooks of two devices and publish_devices, in
\* any interleaving.
NextRegistry ==
    \/ HotPlug
    \/ device_added_register_peer
    \/ device_added_count_peer
    \/ device_removed_unlink_peer
    \/ device_removed_count_peer
    \/ publish_devices
    \/ publish_devices_nomem

SpecRegistry == Init /\ [][NextRegistry]_vars

\* ------------------------------------------------------------------------
\* Properties
\* ------------------------------------------------------------------------

\* line 487 of device_removed has run
StreamingOff == pnp \in {"removed_cancel", "removed_free", "gone"}

\* device_removed has begun
Removing == pnp \in {"removed_count", "removed_flag", "removed_cancel", "removed_free", "gone"}

\* the last step was a device_read at offset 0 of a Session of kind `type`
ReadAtZero(type) ==
    /\ event.fn = "device_read"
    /\ event.arg[1] = 0
    /\ sess[event.sid].type = type

\* C1: the value a Counter read at offset 0 snapshots is the initial counter
\* or the full value of a packet that was delivered, never an intermediate
\* value of the accumulation loop, however the read interleaves with the
\* completion handler.
C1_NoTornRead ==
    ReadAtZero(YUREX_DEVICE_TYPE_BBU) => event.snap \in whole

\* a read that fell between the delivery of a packet and its application,
\* after an earlier packet was applied
C1_Witness ==
    /\ ReadAtZero(YUREX_DEVICE_TYPE_BBU)
    /\ event.snap # Zero64
    /\ cb.pc = "acquire"
    /\ Decode(dev.buf) # event.snap

\* C2: once device_removed has set ep_detect to 0, the completion handler
\* never calls yurex_interrupt for the Device.
C2_NoRearmAfterStreamingOff ==
    ~(StreamingOff /\ event.fn = "yurex_callback" /\ event.call = "queue_interrupt")

\* C3: no step of yurex_callback reads or writes the Device record after
\* device_removed has freed it.
C3_CallbackNeverTouchesFreed ==
    "yurex_callback" \notin uaf

\* C4: a device_read or device_write performed once device_removed has
\* begun returns an error, and none ever touches the freed Device record.
C4_SessionFailsCleanly ==
    /\ uaf \cap {"device_read", "device_write"} = {}
    /\ (event.fn \in {"device_read", "device_write"} /\ Removing)
          => event.ret # B_OK

\* C5: at most one receive is in flight: the queued receives and the
\* completion being handled are never more than one, so initialisation and
\* the handler never both arm for the same completion.
C5_AtMostOneReceive ==
    queued + (IF cb.pc = "idle" THEN 0 ELSE 1) <= 1

\* the handler has armed the next receive
C5_Witness ==
    /\ event.fn = "yurex_callback"
    /\ event.call = "queue_interrupt"
    /\ queued = 1

\* the maximal leading run of ASCII digits of `data`
DigitRun(data) ==
    LET n == CHOOSE k \in 0..Len(data) :
                 /\ \A i \in 1..k : IsDigit(data[i])
                 /\ k < Len(data) => ~IsDigit(data[k + 1])
    IN  SubSeq(data, 1, n)

\* the value of a sequence of decimal digits, as a uint64
RECURSIVE DigitsValue(_)
DigitsValue(digits) ==
    IF digits = <<>> THEN Zero64
    ELSE MulAdd(DigitsValue(SubSeq(digits, 1, Len(digits) - 1)), 10,
                digits[Len(digits)] - CH_0)

\* the handler leaves the position `pc` in this step
Leaves(pc) == cb.pc = pc /\ cb'.pc # pc

\* the round trip of a Counter write, step by step: (a) device_write leaves
\* the cached counter alone; (b) on the ACK of a WRITE the handler sends a
\* read request and leaves the counter alone; (c) once the handler has
\* applied a VALUE/READ packet the counter is the five value bytes of the
\* packet; (d) a read at offset 0 while the counter is the value v that
\* was written returns the decimal digits of v and a newline.
RoundTrip ==
    /\ event'.fn = "device_write" => dev'.bbu = dev.bbu
    /\ Leaves("read_bbu") =>
          /\ dev'.bbu = dev.bbu
          /\ event'.call = "send_request"
          /\ event'.data = ReadRequest
    /\ Leaves("release") => dev'.bbu = <<0, 0, 0>> \o SubSeq(dev.buf, 2, 6)
    /\ \A w \in WriteInputs :
          LET digits == DigitRun(SubSeq(w[1], 1, w[2]))
          IN  (/\ event'.fn = "device_read"
               /\ w[2] > 0
               /\ dev.bbu = DigitsValue(digits))
              => event'.data = digits \o <<CH_NL>>

\* C6: a Counter write does not change the cached counter; the counter
\* becomes the written value v only through the ACK of the WRITE (answered
\* by a read request) and a VALUE/READ packet carrying v, after which a
\* read at offset 0 returns the decimal of v and a newline.
C6_WriteThenRoundTrip == [][RoundTrip]_vars

\* the same round trip on a build whose long is 64 bits wide
C6_RoundTripLong64 == [][longBits = 64 => RoundTrip]_vars

\* C7: a read at a position beyond the staged length returns no byte, with
\* success, for every *length.
C7_BeyondStagedIsEmpty ==
    (event.fn = "device_read" /\ event.arg[1] > sess[event.sid].buf_len)
        => (event.data = <<>> /\ event.ret = B_OK)

\* C8: on a Device that is not freed, a read of the Animation endpoint at
\* offset 0 gives "0\n" when the last write to the endpoint began with '0'
\* and "1\n" when it began with another byte or the Device is fresh; the
\* MODE command a write sends carries 0xFF for '0' and 0x00 otherwise.
C8_AnimationToggle ==
    /\ (ReadAtZero(YUREX_DEVICE_TYPE_ANIME) /\ event.live)
          => event.data = <<IF lastAnime = CH_0 THEN CH_0 ELSE CH_0 + 1, CH_NL>>
    /\ (/\ event.fn = "device_write"
        /\ event.call = "send_request"
        /\ sess[event.sid].type = YUREX_DEVICE_TYPE_ANIME)
          => /\ event.data[1] = CMD_MODE
             /\ event.data[2] = IF sess[event.sid].wbyte = CH_0 THEN 255 ELSE 0
             /\ event.data[3] = CMD_EOF

\* "0\n" is read after a write of '0' was carried out
C8_Witness ==
    /\ ReadAtZero(YUREX_DEVICE_TYPE_ANIME)
    /\ event.live
    /\ lastAnime = CH_0
    /\ event.data = <<CH_0, CH_NL>>

\* C9: the value a non-empty Counter write passes to yurex_write_bbu is the
\* decimal value of the maximal leading run of digits among the *length
\* bytes at buffer.
C9_ParsesOnlyTheDataWritten ==
    (event.fn = "device_write" /\ event.call = "send_request")
        => event.data =
              WriteRequest(DigitsValue(DigitRun(SubSeq(event.arg[1], 1, event.arg[2]))))

\* C10: a handler entered with a non-success status changes neither the
\* counter nor the mode and sends no command.
C10_FailedCompletionIsIgnored ==
    [][(cb.pc # "idle" /\ cb.status # B_OK /\ event'.fn = "yurex_callback")
          => /\ dev'.bbu = dev.bbu
             /\ dev'.anime = dev.anime
             /\ event'.call # "send_request"]_vars

\* the handler has just returned
HandlerDone == event.fn = "yurex_callback" /\ cb.pc = "idle"

\* C11: when the handler has run on a packet whose byte 0 is VALUE or READ,
\* the cached counter is the big-endian value of bytes 1..5 of the packet,
\* with a good or a bad EOF byte.
C11_DecodeBigEndian ==
    (HandlerDone /\ dev.buf[1] \in {CMD_VALUE, CMD_READ})
        => dev.bbu = <<0, 0, 0>> \o SubSeq(dev.buf, 2, 6)

\* a packet with a bad EOF byte and five different value bytes was applied
C11_Witness ==
    /\ HandlerDone
    /\ dev.buf[1] = CMD_READ
    /\ dev.buf[7] # CMD_EOF
    /\ dev.bbu = <<0, 0, 0, 1, 2, 3, 4, 5>>

\* bytes i..8 of a command are the padding value
PaddedFrom(data, i) == \A k \in i..Len(data) : data[k] = CMD_PADDING

\* the value a Counter write passes to yurex_write_bbu
WrittenValue == DigitsValue(DigitRun(event.arg[1]))

\* C12: every command sent is 8 bytes, the unused ones 0xFF: MODE is
\* [0x41, val, 0x0D, 0xFF x5], READ is [0x52, 0x0D, 0xFF x6], WRITE of v is
\* [0x53, the five low bytes of v most significant first, 0x0D, 0xFF]; and
\* the inbound decoding of a WRITE of v < 2^40 gives v.
C12_EncodeAndRoundTrip ==
    event.call = "send_request" =>
        /\ Len(event.data) = 8
        /\ \/ /\ event.data[1] = CMD_MODE
              /\ event.data[2] \in 0..255
              /\ event.data[3] = CMD_EOF
              /\ PaddedFrom(event.data, 4)
           \/ /\ event.data[1] = CMD_READ
              /\ event.data[2] = CMD_EOF
              /\ PaddedFrom(event.data, 3)
           \/ /\ event.data[1] = CMD_WRITE
              /\ event.fn = "device_write"
              /\ SubSeq(event.data, 2, 6) = SubSeq(WrittenValue, 4, 8)
              /\ event.data[7] = CMD_EOF
              /\ PaddedFrom(event.data, 8)
              /\ SubSeq(WrittenValue, 1, 3) = <<0, 0, 0>>
                    => Decode(event.data) = WrittenValue

\* the WRITE of 0x0102030405 was sent
C12_Witness ==
    /\ event.call = "send_request"
    /\ event.data = <<CMD_WRITE, 1, 2, 3, 4, 5, CMD_EOF, CMD_PADDING>>
    /\ Decode(event.data) = WrittenValue

\* line 488 of device_removed has run
CancelRequested == pnp \in {"removed_free", "gone"}

\* the Device record is reachable from the Registry list
Linked == \E i \in 1..Len(gDeviceList) : gDeviceList[i] = dev.udev

\* C13: when device_removed frees the Device, ep_detect has been set to 0,
\* cancel_queued_transfers has been called and the Device is no longer in
\* the Registry list.
C13_ReleasedLast ==
    [][(mem = "live" /\ mem' = "freed")
          => /\ StreamingOff
             /\ dev.ep_detect = 0
             /\ CancelRequested
             /\ ~Linked]_vars

\* the Device was freed while its receive was still queued
C13_Witness ==
    /\ mem = "freed"
    /\ event.fn = "device_removed"
    /\ queued = 1
    /\ gDeviceList = <<>>

\* the endpoint scan of device_added is over and found no endpoint
NoEndpoint ==
    /\ pnp \in {"added_mode", "added_read", "added_intr", "attached"}
    /\ dev.ep_detect = 0

\* C14: a Device for which device_added found no interrupt-IN endpoint is
\* in the Registry, yurex_interrupt is never called for it, no receive is
\* queued and its counter stays as initialised.
C14_NoEndpointNeverArmed ==
    NoEndpoint =>
        /\ Linked
        /\ event.call # "queue_interrupt"
        /\ queued = 0
        /\ dev.bbu = Zero64

\* the names the Devices of the Registry publish
PublishedBbu == {NameBbu(gDeviceList[i]) : i \in 1..Len(gDeviceList)}
PublishedAnime == {NameAnime(gDeviceList[i]) : i \in 1..Len(gDeviceList)}

\* the last step was a device_open that got as far as the lookup of `name`
Opened == event.fn = "device_open" /\ event.arg # <<>>

\* C15: device_open of a path no Device of the Registry publishes returns
\* an error and leaves no session record, neither allocated nor in the
\* cookie; device_open of a published path returns a Session bound to the
\* Device, of kind Counter for the bbu name and Animation for the other.
C15_OpenBindsOrLeavesNothing ==
    Opened =>
        IF event.arg \in PublishedBbu \cup PublishedAnime
        THEN /\ event.ret = B_OK
             /\ sess[event.sid].st = "open"
             /\ sess[event.sid].bound
             /\ sess[event.sid].type = IF event.arg \in PublishedBbu
                                       THEN YUREX_DEVICE_TYPE_BBU
                                       ELSE YUREX_DEVICE_TYPE_ANIME
        ELSE /\ event.ret # B_OK
             /\ sess[event.sid].st = "none"

\* the calls into the transport
TransportCalls == {"send_request", "queue_interrupt", "cancel_queued_transfers"}

\* the context running function fn (for Session sid) holds dev->sem
HoldsSem(fn, sid) ==
    \/ fn = "yurex_callback" /\ cb.locked
    \/ fn = "device_write" /\ sess[sid].st = "write_locked"

\* the context running function fn holds gLock
HoldsGLock(fn) ==
    fn \in {"device_added", "device_removed"} /\ gLock = "hotplug"

\* C16: a step that calls the transport (send_request, queue_interrupt,
\* cancel_queued_transfers) is taken by a context that holds neither
\* dev->sem nor gLock, in device_added, device_removed, device_write and
\* yurex_callback.
C16_NoLockAcrossTransport ==
    [][event'.call \in TransportCalls
          => /\ ~HoldsSem(event'.fn, event'.sid)
             /\ ~HoldsGLock(event'.fn)]_vars

\* a Session sent its MODE command while the handler held dev->sem
C16_Witness ==
    /\ event.fn = "device_write"
    /\ event.call = "send_request"
    /\ event.data[1] = CMD_MODE
    /\ cb.locked
    /\ sem = 0

\* the handler returns in this step
Returns == cb.pc # "idle" /\ cb'.pc = "idle"

\* C17: the handler sends exactly one command, the read request, for a
\* packet that is ACK with byte 1 equal to WRITE, and none for any other
\* packet; it leaves the counter alone for every packet that is neither
\* VALUE nor READ, and the mode for every packet.
C17_AckHandlingFrame ==
    [][event'.fn = "yurex_callback"
          => /\ dev'.anime = dev.anime
             /\ dev.buf[1] \notin {CMD_VALUE, CMD_READ} => dev'.bbu = dev.bbu
             /\ event'.call = "send_request" => event'.data = ReadRequest
             /\ Returns =>
                   cb.sent = IF dev.buf[1] = CMD_ACK /\ dev.buf[2] = CMD_WRITE
                             THEN 1 ELSE 0]_vars

\* the handler answered the ACK of a WRITE while the counter held a value
C17_Witness ==
    /\ event.fn = "yurex_callback"
    /\ event.call = "send_request"
    /\ cb.sent = 1
    /\ dev.buf[1] = CMD_ACK
    /\ dev.bbu = <<0, 0, 0, 1, 2, 3, 4, 5>>

\* a step of the handler arms a receive exactly when it is the last one,
\* and then exactly one
ArmsOnce ==
    event'.fn = "yurex_callback" =>
        IF Returns
        THEN event'.call = "queue_interrupt" /\ queued' = queued + 1
        ELSE event'.call # "queue_interrupt" /\ queued' = queued

WritesDone == \A s \in Sessions : sess[s].st \notin {"write_locked", "write_mode"}

\* C19: when the Animation writes of all Sessions have completed, the last
\* of them by sending its MODE command, dev->anime is 0 exactly when that
\* command carried 0xFF.
C19_FlagAgreesWithLastMode ==
    (event.fn = "device_write" /\ event.call = "send_request" /\ WritesDone)
        => (dev.anime = 0 <=> event.data[2] = CMD_PADDING)

\* the devices whose device_added has registered them and whose
\* device_removed has not begun
AddedNotRemoved ==
    (IF pnp \in {"added_conf", "added_mode", "added_read", "added_intr",
                 "attached", "orphan"} THEN {UDEV} ELSE {})
    \cup (IF pnpPeer = "attached" THEN {UDEV_PEER} ELSE {})

\* how often device d is in the Registry list
TimesLinked(d) == Cardinality({i \in 1..Len(gDeviceList) : gDeviceList[i] = d})

\* C20: whenever gLock is free, gDeviceCount is the length of the Registry
\* list, every Device that was added and not removed is in the list once,
\* and the array a publish_devices has returned holds the bbu and the
\* animation name of each Device of the list, in order, then NULL.
C20_RegistryConsistent ==
    gLock = "free" =>
        /\ gDeviceCount = Len(gDeviceList)
        /\ \A d \in AddedNotRemoved : TimesLinked(d) = 1
        /\ (event.fn = "publish_devices" /\ event.ret = B_OK)
              => /\ Len(event.data) = 2 * Len(gDeviceList) + 1
                 /\ \A i \in 1..Len(gDeviceList) :
                       /\ event.data[2 * i - 1] = NameBbu(gDeviceList[i])
                       /\ event.data[2 * i] = NameAnime(gDeviceList[i])
                 /\ event.data[Len(event.data)] = NullEntry

\* publish_devices returned the names of two Devices, the first added last
C20_Witness ==
    /\ event.fn = "publish_devices"
    /\ event.ret = B_OK
    /\ gDeviceList = <<UDEV, UDEV_PEER>>
    /\ Len(event.data) = 5

=============================================================================
